---------------------------- MODULE Spec2Model ----------------------------
(***************************************************************************)
(* A model of the process-execution layer of rust-illumos (src/lib.rs):    *)
(* build_env, build_cmd, spawn_reader, the three public entry points run,  *)
(* run_with_stdin and run_capture_stdout, and the collaborators devprop,   *)
(* svccfg and svcprop built on them.                                       *)
(*                                                                         *)
(* One invocation is modelled: the calling (parent) thread, the reader     *)
(* threads spawn_reader starts, the detached stdin writer thread of        *)
(* run_with_stdin, and the child process at the other end of the pipes.    *)
(* Pipes are bounded FIFO byte queues; a write blocks on a full pipe and a *)
(* read blocks on an empty pipe whose write end is still open.             *)
(***************************************************************************)
EXTENDS Integers, Sequences, FiniteSets, TLC

VARIABLES
    call,          \* the collaborator call (devprop, svcprop, svccfg), if any
    mode,          \* which public function was called
    args,          \* the caller's argument vector (args: &[S])
    env,           \* the caller's overrides (env: Option<&[(S, S)]>)
    ambient,       \* the environment of the calling process
    stdinText,     \* the payload handed to run_with_stdin (stdin: String)
    prog,          \* the child program: what it writes, how it treats stdin
    pc,            \* position of the calling thread
    cmd,           \* the Command built by build_cmd
    spawnAttempts, \* number of cmd.spawn() / cmd.output() spawn attempts
    waits,         \* number of wait-for-exit calls made on the child
    result,        \* what the public function returned
    hostExit,      \* exit code of the host process once it has terminated
    cpc,           \* position of the child process
    childEnv,      \* environment the child was started with
    outLeft,       \* bytes the child still has to write, per stream
    wrote,         \* bytes the child has written so far, per stream
    pipe,          \* contents of the three pipes: "O", "E" (child -> host), "I"
    rd,            \* state of the reader threads, per stream
    rbuf,          \* the line a reader is accumulating (read_line's buf)
    logged,        \* info! records emitted, per tag, in order
    errLogged,     \* error! records emitted by readers
    wr,            \* state of the stdin writer thread
    wrLeft,        \* payload bytes the writer has not yet written
    childIn,       \* bytes the child has read from its stdin
    captured,      \* bytes cmd.output() has collected, per stream
    status,        \* raw wait status the child exited with
    es             \* what wait-for-exit returned to the parent

vars == << call, mode, args, env, ambient, stdinText, prog, pc, cmd,
           spawnAttempts, waits, result, hostExit, cpc, childEnv, outLeft,
           wrote, pipe, rd, rbuf, logged, errLogged, wr, wrLeft, childIn,
           captured, status, es >>

inputs == << call, mode, args, env, ambient, stdinText, prog >>

-----------------------------------------------------------------------------
(* Bounds of the model.                                                    *)

\* capacity of one pipe, in bytes
PipeCap == 1
\* the longest output a child writes to one stream, in bytes
MaxWrite == 2
\* the longest stdin payload, in bytes
MaxPayload == 2
\* the longest override list of the environment specification
MaxEnv == 2
\* the largest number of variables in the ambient environment
MaxAmbient == 2

\* the largest number of lines a child writes to stdout in the logging
\* specification
MaxLines == 2
\* the longest text a property reader captures, in bytes
MaxText == 3
\* the largest number of directives handed to svccfg
MaxDirectives == 2

-----------------------------------------------------------------------------
(* Values.                                                                 *)

None == [tag |-> "None"]
Some(x) == [tag |-> "Some", v |-> x]

Streams == {"O", "E"}
Modes == {"run", "run_with_stdin", "run_capture_stdout"}
Streaming == {"run", "run_with_stdin"}

\* the exit code of std::process::exit(100) in spawn_reader
FatalExitCode == 100

\* raw wait statuses: exit code c is c * 256, death by signal s is s
StatusOfCode(c) == c * 256
StatusOfSignal(s) == s
ExitStatuses == {StatusOfCode(0), StatusOfCode(3), StatusOfSignal(9)}

\* ExitStatus::success()
success(st) == st = 0

-----------------------------------------------------------------------------
(* Text: bytes are numbers 0..255, a String is the byte sequence of a      *)
(* valid UTF-8 text.                                                       *)

\* a UTF-8 continuation byte within [lo, hi]
Cont(s, i, lo, hi) == i <= Len(s) /\ s[i] >= lo /\ s[i] <= hi

\* core::str::from_utf8's validation, from byte i on
RECURSIVE Utf8From(_, _)
Utf8From(s, i) ==
    IF i > Len(s) THEN TRUE
    ELSE LET b == s[i] IN
         IF b < 128 THEN Utf8From(s, i + 1)
         ELSE IF b >= 194 /\ b <= 223
              THEN Cont(s, i + 1, 128, 191) /\ Utf8From(s, i + 2)
         ELSE IF b >= 224 /\ b <= 239
              THEN /\ Cont(s, i + 1, IF b = 224 THEN 160 ELSE 128,
                                     IF b = 237 THEN 159 ELSE 191)
                   /\ Cont(s, i + 2, 128, 191)
                   /\ Utf8From(s, i + 3)
         ELSE IF b >= 240 /\ b <= 244
              THEN /\ Cont(s, i + 1, IF b = 240 THEN 144 ELSE 128,
                                     IF b = 244 THEN 143 ELSE 191)
                   /\ Cont(s, i + 2, 128, 191)
                   /\ Cont(s, i + 3, 128, 191)
                   /\ Utf8From(s, i + 4)
         ELSE FALSE

ValidUtf8(s) == Utf8From(s, 1)

\* String::from_utf8(bytes): the same bytes as a String, or a decode error
from_utf8(bytes) == IF ValidUtf8(bytes) THEN Some(bytes) ELSE None

\* char::is_whitespace on the one-byte characters: \t \n \v \f \r and space
IsSpace(b) == b \in {9, 10, 11, 12, 13, 32}

RECURSIVE TrimStart(_)
TrimStart(s) ==
    IF s # << >> /\ IsSpace(Head(s)) THEN TrimStart(Tail(s)) ELSE s

RECURSIVE TrimEnd(_)
TrimEnd(s) ==
    IF s # << >> /\ IsSpace(s[Len(s)])
    THEN TrimEnd(SubSeq(s, 1, Len(s) - 1)) ELSE s

\* str::trim
trim(s) == TrimEnd(TrimStart(s))

\* the index of the first newline of s, or 0
FirstNewline(s) ==
    IF \E i \in 1 .. Len(s) : s[i] = 10
    THEN CHOOSE i \in 1 .. Len(s) :
            s[i] = 10 /\ \A j \in 1 .. i - 1 : s[j] # 10
    ELSE 0

\* str::lines(): the text is split after each "\n"; a line loses its "\n"
\* and then a "\r" before it; no empty line follows a final "\n"
RECURSIVE lines(_)
lines(s) ==
    IF s = << >> THEN << >>
    ELSE IF FirstNewline(s) = 0 THEN << s >>
    ELSE LET l == SubSeq(s, 1, FirstNewline(s) - 1) IN
         << IF l # << >> /\ l[Len(l)] = 13
            THEN SubSeq(l, 1, Len(l) - 1) ELSE l >>
            \o lines(SubSeq(s, FirstNewline(s) + 1, Len(s)))

-----------------------------------------------------------------------------
(* Command construction.                                                   *)

LocaleVars == {"LANG", "LC_CTYPE", "LC_NUMERIC", "LC_TIME", "LC_COLLATE",
               "LC_MONETARY", "LC_MESSAGES", "LC_ALL"}

EmptyMap == [k \in {} |-> None]

MapPut(m, k, x) == [y \in DOMAIN m \cup {k} |-> IF y = k THEN x ELSE m[y]]

\* Command::env_remove(k): the child will not inherit k
env_remove(m, k) == MapPut(m, k, None)

\* Command::envs(e): each pair in order, a later pair replacing an earlier
RECURSIVE envs(_, _)
envs(m, e) ==
    IF e = << >> THEN m
    ELSE envs(MapPut(m, e[1][1], Some(e[1][2])), Tail(e))

\* build_env: the overrides as a vector of (&str, &str) pairs
build_env(e) ==
    IF e.tag = "Some"
    THEN Some([i \in 1 .. Len(e.v) |-> << e.v[i][1], e.v[i][2] >>])
    ELSE None

\* StripLocale with the last env_remove call left out
StripLocaleNoLcAll(m) ==
    env_remove(env_remove(env_remove(env_remove(env_remove(env_remove(
    env_remove(m, "LANG"), "LC_CTYPE"), "LC_NUMERIC"), "LC_TIME"),
    "LC_COLLATE"), "LC_MONETARY"), "LC_MESSAGES")

\* the eight env_remove calls of build_cmd, in the order of the source
StripLocale(m) ==
    env_remove(env_remove(env_remove(env_remove(env_remove(env_remove(
    env_remove(env_remove(m, "LANG"), "LC_CTYPE"), "LC_NUMERIC"), "LC_TIME"),
    "LC_COLLATE"), "LC_MONETARY"), "LC_MESSAGES"), "LC_ALL")

\* build_cmd that strips the locale variables after applying the overrides
build_cmd_strip_last(a, e) ==
    IF Len(a) = 0 THEN [tag |-> "Panic"]
    ELSE [tag     |-> "Cmd",
          program |-> a[1],
          args    |-> IF Len(a) > 1 THEN SubSeq(a, 2, Len(a)) ELSE << >>,
          vars    |-> IF e.tag = "Some"
                      THEN StripLocale(envs(EmptyMap, e.v))
                      ELSE StripLocale(EmptyMap)]

\* build_cmd: indexing args[0] panics on an empty vector
build_cmd(a, e) ==
    IF Len(a) = 0 THEN [tag |-> "Panic"]
    ELSE [tag     |-> "Cmd",
          program |-> a[1],
          args    |-> IF Len(a) > 1 THEN SubSeq(a, 2, Len(a)) ELSE << >>,
          vars    |-> IF e.tag = "Some"
                      THEN envs(StripLocale(EmptyMap), e.v)
                      ELSE StripLocale(EmptyMap)]

\* the environment std::process::Command gives the child: the ambient
\* environment with the recorded removals and settings applied
ChildEnvOf(c, amb) ==
    LET set == {k \in DOMAIN c.vars : c.vars[k].tag = "Some"}
        del == {k \in DOMAIN c.vars : c.vars[k].tag = "None"}
    IN  [k \in (DOMAIN amb \ del) \cup set |->
            IF k \in set THEN c.vars[k].v ELSE amb[k]]

\* cmd.stdin(..), cmd.stdout(..), cmd.stderr(..) of the three entry points
Stdio(m) ==
    [stdin  |-> IF m = "run_with_stdin" THEN "piped" ELSE "null",
     stdout |-> "piped",
     stderr |-> "piped"]

-----------------------------------------------------------------------------
(* Results.                                                                *)

NoResult == [kind |-> "none"]
\* Ok(()) of the streaming modes, Ok(text) of capture mode
Ok(x) == [kind |-> "Ok", val |-> x]
\* an io::Error of cmd.spawn() / cmd.output() returned by `?`
ErrSpawn == [kind |-> "Err", why |-> "spawn"]
\* Err(e.into()) of child.wait()
ErrWait == [kind |-> "Err", why |-> "wait"]
\* a FromUtf8Error returned by `?`
ErrUtf8 == [kind |-> "Err", why |-> "utf8"]
\* bail!("exec {:?}: failed {:?}", &args, x): the text shows the argument
\* vector and x, which is the ExitStatus in run and run_with_stdin and the
\* decoded stderr in run_capture_stdout
ErrExec(a, st, txt) ==
    [kind |-> "Err", why |-> "exec", argv |-> a, status |-> st, text |-> txt]

\* bail!("unexpected output for devprop {}: {:?}", key, lines): the text
\* names the tool, the key (the FMRI for svcprop) and shows the lines
ErrShape(tool, name, ls) ==
    [kind |-> "Err", why |-> "unexpected output", tool |-> tool,
     name |-> name, lines |-> ls]

-----------------------------------------------------------------------------
(* Inputs of one invocation.                                               *)

\* the child's output in the concurrency specifications: "h\nh\n..."
PatByte(i) == IF i % 2 = 1 THEN 104 ELSE 10
PatSeq(n) == [i \in 1 .. n |-> PatByte(i)]

SeqsUpTo(S, n) == UNION {[1 .. k -> S] : k \in 0 .. n}

\* argument vectors: empty, the program alone, the program and an argument
ArgSamples == {<< >>, << "/bin/p" >>, << "/bin/p", "-a" >>}

Program(o, e, c) == [out |-> o, err |-> e, cin |-> c]

Input(m, a, e, amb, t, p) ==
    [mode |-> m, args |-> a, env |-> e, ambient |-> amb, stdinText |-> t,
     prog |-> p]

\* nothing has been built, spawned, read, written or logged yet
Idle ==
    /\ cmd = None
    /\ spawnAttempts = 0
    /\ waits = 0
    /\ result = NoResult
    /\ hostExit = None
    /\ cpc = "none"
    /\ childEnv = None
    /\ outLeft = [s \in Streams |-> << >>]
    /\ wrote = [s \in Streams |-> << >>]
    /\ pipe = [s \in {"O", "E", "I"} |-> << >>]
    /\ rd = [s \in Streams |-> "none"]
    /\ rbuf = [s \in Streams |-> << >>]
    /\ logged = [s \in Streams |-> << >>]
    /\ errLogged = << >>
    /\ wr = "none"
    /\ wrLeft = << >>
    /\ childIn = << >>
    /\ captured = [s \in Streams |-> << >>]
    /\ status = None
    /\ es = None

\* no collaborator is involved: a public entry point is called directly
NoCall == [fn |-> "none"]

InitWith(I) ==
    /\ \E i \in I :
          /\ mode = i.mode
          /\ args = i.args
          /\ env = i.env
          /\ ambient = i.ambient
          /\ stdinText = i.stdinText
          /\ prog = i.prog
    /\ call = NoCall
    /\ pc = "start"
    /\ Idle

\* the host process is running
Alive == hostExit = None

-----------------------------------------------------------------------------
(* The calling thread.                                                     *)

\* build_env, build_cmd and the three stdio settings; args[0] of an empty
\* vector panics
Build ==
    /\ Alive
    /\ pc = "start"
    /\ LET c == build_cmd(args, build_env(env)) IN
         IF c.tag = "Panic"
         THEN /\ pc' = "panicked"
              /\ cmd' = cmd
         ELSE /\ pc' = "built"
              /\ cmd' = Some(c @@ Stdio(mode))
    /\ UNCHANGED << inputs, spawnAttempts, waits, result, hostExit, cpc,
                    childEnv, outLeft, wrote, pipe, rd, rbuf, logged,
                    errLogged, wr, wrLeft, childIn, captured, status, es >>

\* cmd.spawn() (cmd.output() in capture mode) creates the child
SpawnOk ==
    /\ Alive
    /\ pc = "built"
    /\ spawnAttempts' = spawnAttempts + 1
    /\ cpc' = "running"
    /\ childEnv' = Some(ChildEnvOf(cmd.v, ambient))
    /\ outLeft' = [s \in Streams |-> IF s = "O" THEN prog.out ELSE prog.err]
    /\ pc' = IF mode = "run_capture_stdout" THEN "collect"
             ELSE IF mode = "run_with_stdin" THEN "spawn_writer"
             ELSE "spawn_out"
    /\ UNCHANGED << inputs, cmd, waits, result, hostExit, wrote, pipe, rd,
                    rbuf, logged, errLogged, wr, wrLeft, childIn, captured,
                    status, es >>

\* SpawnFail that tries again instead of returning
SpawnFailRetry ==
    /\ Alive
    /\ pc = "built"
    /\ spawnAttempts' = spawnAttempts + 1
    /\ UNCHANGED << inputs, pc, cmd, waits, result, hostExit, cpc, childEnv,
                    outLeft, wrote, pipe, rd, rbuf, logged, errLogged, wr,
                    wrLeft, childIn, captured, status, es >>

\* the OS cannot create the child: `?` returns the error
SpawnFail ==
    /\ Alive
    /\ pc = "built"
    /\ spawnAttempts' = spawnAttempts + 1
    /\ result' = ErrSpawn
    /\ pc' = "returned"
    /\ UNCHANGED << inputs, cmd, waits, hostExit, cpc, childEnv, outLeft,
                    wrote, pipe, rd, rbuf, logged, errLogged, wr, wrLeft,
                    childIn, captured, status, es >>


\* the pipe ends the child holds are closed once it has finished
ChildGone == cpc \in {"closed", "zombie", "reaped"}

\* SpawnWriter that starts no thread
SpawnWriterSkipped ==
    /\ Alive
    /\ pc = "spawn_writer"
    /\ pc' = "spawn_out"
    /\ UNCHANGED << inputs, cmd, spawnAttempts, waits, result, hostExit, cpc,
                    childEnv, outLeft, wrote, pipe, rd, rbuf, logged,
                    errLogged, wr, wrLeft, childIn, captured, status, es >>

\* child.stdin.take().unwrap() and the detached std::thread::spawn of the
\* writer in run_with_stdin; the JoinHandle is dropped
SpawnWriter ==
    /\ Alive
    /\ pc = "spawn_writer"
    /\ wr' = "running"
    /\ wrLeft' = stdinText
    /\ pc' = "spawn_out"
    /\ UNCHANGED << inputs, cmd, spawnAttempts, waits, result, hostExit, cpc,
                    childEnv, outLeft, wrote, pipe, rd, rbuf, logged,
                    errLogged, childIn, captured, status, es >>

\* child.stdout.take() / child.stderr.take(): Some iff the stream is piped
Taken(r) ==
    IF (IF r = "O" THEN cmd.v.stdout ELSE cmd.v.stderr) = "piped"
    THEN Some(r) ELSE None

\* spawn_reader that starts a thread for stdout only
spawn_reader_stdout_only(r, stream) ==
    /\ rd' = [rd EXCEPT ![r] = IF stream.tag = "Some" /\ r = "O"
                                THEN "running" ELSE "none"]

\* spawn_reader(name, stream): no thread for an absent stream
spawn_reader(r, stream) ==
    /\ rd' = [rd EXCEPT ![r] = IF stream.tag = "Some" THEN "running"
                                ELSE "none"]

\* let readout = spawn_reader("O", ..); let readerr = spawn_reader("E", ..)
SpawnReader(r) ==
    /\ Alive
    /\ pc = (IF r = "O" THEN "spawn_out" ELSE "spawn_err")
    /\ spawn_reader(r, Taken(r))
    /\ pc' = (IF r = "O" THEN "spawn_err" ELSE "join_out")
    /\ UNCHANGED << inputs, cmd, spawnAttempts, waits, result, hostExit, cpc,
                    childEnv, outLeft, wrote, pipe, rbuf, logged, errLogged,
                    wr, wrLeft, childIn, captured, status, es >>

\* JoinReader that does not block on the thread
JoinReaderNoBlock(r) ==
    /\ Alive
    /\ pc = (IF r = "O" THEN "join_out" ELSE "join_err")
    /\ pc' = (IF r = "O" THEN "join_err" ELSE "call_wait")
    /\ UNCHANGED << inputs, cmd, spawnAttempts, waits, result, hostExit, cpc,
                    childEnv, outLeft, wrote, pipe, rd, rbuf, logged,
                    errLogged, wr, wrLeft, childIn, captured, status, es >>

\* JoinReader that joins the stdout reader only
JoinReaderStdoutOnly(r) ==
    /\ Alive
    /\ pc = (IF r = "O" THEN "join_out" ELSE "join_err")
    /\ r = "O" => rd[r] \in {"none", "done"}
    /\ pc' = (IF r = "O" THEN "join_err" ELSE "call_wait")
    /\ UNCHANGED << inputs, cmd, spawnAttempts, waits, result, hostExit, cpc,
                    childEnv, outLeft, wrote, pipe, rd, rbuf, logged,
                    errLogged, wr, wrLeft, childIn, captured, status, es >>

\* if let Some(t) = readout { t.join() }: returns once the thread has ended
JoinReader(r) ==
    /\ Alive
    /\ pc = (IF r = "O" THEN "join_out" ELSE "join_err")
    /\ rd[r] \in {"none", "done"}
    /\ pc' = (IF r = "O" THEN "join_err" ELSE "call_wait")
    /\ UNCHANGED << inputs, cmd, spawnAttempts, waits, result, hostExit, cpc,
                    childEnv, outLeft, wrote, pipe, rd, rbuf, logged,
                    errLogged, wr, wrLeft, childIn, captured, status, es >>

\* cmd.output() reads the child's stdout and stderr to the end, both at once
CaptureRead(s) ==
    /\ Alive
    /\ pc = "collect"
    /\ pipe[s] # << >>
    /\ captured' = [captured EXCEPT ![s] = Append(@, Head(pipe[s]))]
    /\ pipe' = [pipe EXCEPT ![s] = Tail(@)]
    /\ UNCHANGED << inputs, pc, cmd, spawnAttempts, waits, result, hostExit,
                    cpc, childEnv, outLeft, wrote, rd, rbuf, logged,
                    errLogged, wr, wrLeft, childIn, status, es >>

\* both captured streams are at end-of-stream
CaptureEof ==
    /\ Alive
    /\ pc = "collect"
    /\ ChildGone
    /\ \A s \in Streams : pipe[s] = << >>
    /\ pc' = "call_wait"
    /\ UNCHANGED << inputs, cmd, spawnAttempts, waits, result, hostExit, cpc,
                    childEnv, outLeft, wrote, pipe, rd, rbuf, logged,
                    errLogged, wr, wrLeft, childIn, captured, status, es >>

\* child.wait() is called (inside cmd.output() in capture mode)
CallWait ==
    /\ Alive
    /\ pc = "call_wait"
    /\ waits' = waits + 1
    /\ pc' = "waiting"
    /\ UNCHANGED << inputs, cmd, spawnAttempts, result, hostExit, cpc,
                    childEnv, outLeft, wrote, pipe, rd, rbuf, logged,
                    errLogged, wr, wrLeft, childIn, captured, status, es >>

\* StreamResult that looks at the exit code only, so that death by a
\* signal counts as success
StreamResultCodeOnly(st) ==
    IF st \div 256 # 0 THEN ErrExec(args, Some(st), None) ELSE Ok(<< >>)

\* the match on child.wait() of run and run_with_stdin
StreamResult(st) ==
    IF ~success(st) THEN ErrExec(args, Some(st), None) ELSE Ok(<< >>)

\* CaptureResult that trims the text it returns
CaptureResultTrimmed(st) ==
    IF success(st)
    THEN LET t == from_utf8(captured["O"]) IN
         IF t.tag = "Some" THEN Ok(trim(t.v)) ELSE ErrUtf8
    ELSE LET t == from_utf8(captured["E"]) IN
         IF t.tag = "Some" THEN ErrExec(args, None, Some(t.v)) ELSE ErrUtf8

\* CaptureResult that reports stdout, not stderr, of a failed child
CaptureResultStdoutOnFail(st) ==
    LET t == from_utf8(captured["O"]) IN
    IF t.tag # "Some" THEN ErrUtf8
    ELSE IF success(st) THEN Ok(t.v) ELSE ErrExec(args, None, Some(t.v))

\* CaptureResult that decodes both streams before it looks at the status
CaptureResultDecodesBoth(st) ==
    LET o == from_utf8(captured["O"])
        e == from_utf8(captured["E"])
    IN  IF o.tag # "Some" \/ e.tag # "Some" THEN ErrUtf8
        ELSE IF success(st) THEN Ok(o.v)
        ELSE ErrExec(args, None, Some(e.v))

\* the if on output.status.success() of run_capture_stdout
CaptureResult(st) ==
    IF success(st)
    THEN LET t == from_utf8(captured["O"]) IN
         IF t.tag = "Some" THEN Ok(t.v) ELSE ErrUtf8
    ELSE LET t == from_utf8(captured["E"]) IN
         IF t.tag = "Some" THEN ErrExec(args, None, Some(t.v)) ELSE ErrUtf8

\* WaitOk that takes the status and leaves the child unreaped
WaitOkNoReap ==
    /\ Alive
    /\ pc = "waiting"
    /\ cpc = "zombie"
    /\ es' = status
    /\ result' = IF mode = "run_capture_stdout"
                 THEN CaptureResult(status.v) ELSE StreamResult(status.v)
    /\ pc' = "returned"
    /\ UNCHANGED << inputs, cmd, spawnAttempts, waits, hostExit, cpc,
                    childEnv, outLeft, wrote, pipe, rd, rbuf, logged,
                    errLogged, wr, wrLeft, childIn, captured, status >>

\* wait-for-exit returns the status of the exited child, which is reaped,
\* and the entry point maps it to its result
WaitOk ==
    /\ Alive
    /\ pc = "waiting"
    /\ cpc = "zombie"
    /\ cpc' = "reaped"
    /\ es' = status
    /\ result' = IF mode = "run_capture_stdout"
                 THEN CaptureResult(status.v) ELSE StreamResult(status.v)
    /\ pc' = "returned"
    /\ UNCHANGED << inputs, cmd, spawnAttempts, waits, hostExit, childEnv,
                    outLeft, wrote, pipe, rd, rbuf, logged, errLogged, wr,
                    wrLeft, childIn, captured, status >>

\* WaitErr that calls wait-for-exit again instead of returning the error
WaitErrRetry ==
    /\ Alive
    /\ pc = "waiting"
    /\ cpc = "zombie"
    /\ pc' = "call_wait"
    /\ UNCHANGED << inputs, cmd, spawnAttempts, waits, result, hostExit, cpc,
                    childEnv, outLeft, wrote, pipe, rd, rbuf, logged,
                    errLogged, wr, wrLeft, childIn, captured, status, es >>

\* wait-for-exit itself fails: Err(e) => Err(e.into()), `?` in capture mode
WaitErr ==
    /\ Alive
    /\ pc = "waiting"
    /\ cpc = "zombie"
    /\ result' = ErrWait
    /\ pc' = "returned"
    /\ UNCHANGED << inputs, cmd, spawnAttempts, waits, hostExit, cpc,
                    childEnv, outLeft, wrote, pipe, rd, rbuf, logged,
                    errLogged, wr, wrLeft, childIn, captured, status, es >>


-----------------------------------------------------------------------------
(* A reader thread: the loop of spawn_reader.                              *)

\* LineRead without the is_empty test: an empty line is logged too
LineReadLogsEmpty(r, line) ==
    IF ValidUtf8(line)
    THEN /\ logged' = [logged EXCEPT ![r] = Append(@, trim(line))]
         /\ UNCHANGED << rd, errLogged >>
    ELSE /\ errLogged' = Append(errLogged, r)
         /\ rd' = [rd EXCEPT ![r] = "faulted"]
         /\ UNCHANGED logged

\* one read_line result Ok(n), n > 0: a valid line is trimmed and logged
\* unless empty; a line that is not UTF-8 is the Err(e) arm
LineRead(r, line) ==
    IF ValidUtf8(line)
    THEN /\ logged' = [logged EXCEPT ![r] =
                          IF trim(line) # << >> THEN Append(@, trim(line))
                          ELSE @]
         /\ UNCHANGED << rd, errLogged >>
    ELSE /\ errLogged' = Append(errLogged, r)
         /\ rd' = [rd EXCEPT ![r] = "faulted"]
         /\ UNCHANGED logged

\* read_line takes the next byte of the pipe; a newline ends the line
ReaderRead(r) ==
    /\ Alive
    /\ rd[r] = "running"
    /\ pipe[r] # << >>
    /\ pipe' = [pipe EXCEPT ![r] = Tail(@)]
    /\ LET line == Append(rbuf[r], Head(pipe[r])) IN
         IF Head(pipe[r]) = 10
         THEN /\ LineRead(r, line)
              /\ rbuf' = [rbuf EXCEPT ![r] = << >>]
         ELSE /\ rbuf' = [rbuf EXCEPT ![r] = line]
              /\ UNCHANGED << rd, logged, errLogged >>
    /\ UNCHANGED << inputs, pc, cmd, spawnAttempts, waits, result, hostExit,
                    cpc, childEnv, outLeft, wrote, wr, wrLeft, childIn,
                    captured, status, es >>

\* end-of-stream: an unterminated last line is returned first, then Ok(0)
\* ends the thread
ReaderEof(r) ==
    /\ Alive
    /\ rd[r] = "running"
    /\ pipe[r] = << >>
    /\ ChildGone
    /\ IF rbuf[r] # << >>
       THEN /\ LineRead(r, rbuf[r])
            /\ rbuf' = [rbuf EXCEPT ![r] = << >>]
       ELSE /\ rd' = [rd EXCEPT ![r] = "done"]
            /\ UNCHANGED << rbuf, logged, errLogged >>
    /\ UNCHANGED << inputs, pc, cmd, spawnAttempts, waits, result, hostExit,
                    cpc, childEnv, outLeft, wrote, pipe, wr, wrLeft, childIn,
                    captured, status, es >>

\* ReaderReadErr that ends the thread instead of the host process
ReaderReadErrReturn(r) ==
    /\ Alive
    /\ rd[r] = "running"
    /\ errLogged' = Append(errLogged, r)
    /\ rd' = [rd EXCEPT ![r] = "done"]
    /\ UNCHANGED << inputs, pc, cmd, spawnAttempts, waits, result, hostExit,
                    cpc, childEnv, outLeft, wrote, pipe, rbuf, logged, wr,
                    wrLeft, childIn, captured, status, es >>

\* read_line returns Err(e) for an I/O error: error!(..) is logged
ReaderReadErr(r) ==
    /\ Alive
    /\ rd[r] = "running"
    /\ errLogged' = Append(errLogged, r)
    /\ rd' = [rd EXCEPT ![r] = "faulted"]
    /\ UNCHANGED << inputs, pc, cmd, spawnAttempts, waits, result, hostExit,
                    cpc, childEnv, outLeft, wrote, pipe, rbuf, logged, wr,
                    wrLeft, childIn, captured, status, es >>

\* std::process::exit(100) of the Err(e) arm ends the host process
ReaderExit(r) ==
    /\ Alive
    /\ rd[r] = "faulted"
    /\ hostExit' = Some(FatalExitCode)
    /\ UNCHANGED << inputs, pc, cmd, spawnAttempts, waits, result, cpc,
                    childEnv, outLeft, wrote, pipe, rd, rbuf, logged,
                    errLogged, wr, wrLeft, childIn, captured, status, es >>

-----------------------------------------------------------------------------
(* The stdin writer thread: child_stdin.write_all(..).unwrap().            *)

\* one more byte of the payload enters the pipe
WriterWrite ==
    /\ Alive
    /\ wr = "running"
    /\ wrLeft # << >>
    /\ ~ChildGone
    /\ Len(pipe["I"]) < PipeCap
    /\ pipe' = [pipe EXCEPT !["I"] = Append(@, Head(wrLeft))]
    /\ wrLeft' = Tail(wrLeft)
    /\ UNCHANGED << inputs, pc, cmd, spawnAttempts, waits, result, hostExit,
                    cpc, childEnv, outLeft, wrote, rd, rbuf, logged,
                    errLogged, wr, childIn, captured, status, es >>

\* WriterFail that ends the host process, as the readers do
WriterFailExits ==
    /\ Alive
    /\ wr = "running"
    /\ wrLeft # << >>
    /\ ChildGone
    /\ wr' = "panicked"
    /\ hostExit' = Some(FatalExitCode)
    /\ UNCHANGED << inputs, pc, cmd, spawnAttempts, waits, result, cpc,
                    childEnv, outLeft, wrote, pipe, rd, rbuf, logged,
                    errLogged, wrLeft, childIn, captured, status, es >>

\* the child no longer holds the read end: write_all fails and unwrap()
\* panics, which ends this thread alone
WriterFail ==
    /\ Alive
    /\ wr = "running"
    /\ wrLeft # << >>
    /\ ChildGone
    /\ wr' = "panicked"
    /\ UNCHANGED << inputs, pc, cmd, spawnAttempts, waits, result, hostExit,
                    cpc, childEnv, outLeft, wrote, pipe, rd, rbuf, logged,
                    errLogged, wrLeft, childIn, captured, status, es >>

\* WriterDone that keeps child_stdin open after the last byte
WriterDoneNoClose ==
    /\ Alive
    /\ wr = "running"
    /\ wrLeft = << >>
    /\ wr' = "parked"
    /\ UNCHANGED << inputs, pc, cmd, spawnAttempts, waits, result, hostExit,
                    cpc, childEnv, outLeft, wrote, pipe, rd, rbuf, logged,
                    errLogged, wrLeft, childIn, captured, status, es >>

\* the whole payload is written: the closure ends and child_stdin is
\* dropped, which closes the pipe
WriterDone ==
    /\ Alive
    /\ wr = "running"
    /\ wrLeft = << >>
    /\ wr' = "done"
    /\ UNCHANGED << inputs, pc, cmd, spawnAttempts, waits, result, hostExit,
                    cpc, childEnv, outLeft, wrote, pipe, rd, rbuf, logged,
                    errLogged, wrLeft, childIn, captured, status, es >>

-----------------------------------------------------------------------------
(* The child process.                                                      *)

\* a write to stdout or stderr blocks while the pipe is full
ChildWrite(s) ==
    /\ Alive
    /\ cpc = "running"
    /\ outLeft[s] # << >>
    /\ Len(pipe[s]) < PipeCap
    /\ pipe' = [pipe EXCEPT ![s] = Append(@, Head(outLeft[s]))]
    /\ wrote' = [wrote EXCEPT ![s] = Append(@, Head(outLeft[s]))]
    /\ outLeft' = [outLeft EXCEPT ![s] = Tail(@)]
    /\ UNCHANGED << inputs, pc, cmd, spawnAttempts, waits, result, hostExit,
                    cpc, childEnv, rd, rbuf, logged, errLogged, wr, wrLeft,
                    childIn, captured, status, es >>

\* a child that reads its stdin takes the next byte
ChildRead ==
    /\ Alive
    /\ cpc = "running"
    /\ prog.cin = "drain"
    /\ pipe["I"] # << >>
    /\ childIn' = Append(childIn, Head(pipe["I"]))
    /\ pipe' = [pipe EXCEPT !["I"] = Tail(@)]
    /\ UNCHANGED << inputs, pc, cmd, spawnAttempts, waits, result, hostExit,
                    cpc, childEnv, outLeft, wrote, rd, rbuf, logged,
                    errLogged, wr, wrLeft, captured, status, es >>

\* the child's stdin is at end-of-input: /dev/null, or the pipe is empty
\* and its write end has been closed by the writer thread
StdinEof ==
    \/ cmd.v.stdin = "null"
    \/ pipe["I"] = << >> /\ wr \in {"done", "panicked"}

\* the child has written all its output (and, if it reads stdin, has seen
\* end-of-input): it closes its ends of the pipes
ChildClose ==
    /\ Alive
    /\ cpc = "running"
    /\ \A s \in Streams : outLeft[s] = << >>
    /\ prog.cin = "drain" => StdinEof
    /\ cpc' = "closed"
    /\ UNCHANGED << inputs, pc, cmd, spawnAttempts, waits, result, hostExit,
                    childEnv, outLeft, wrote, pipe, rd, rbuf, logged,
                    errLogged, wr, wrLeft, childIn, captured, status, es >>

\* the child terminates with some wait status
ChildExit(st) ==
    /\ Alive
    /\ cpc = "closed"
    /\ cpc' = "zombie"
    /\ status' = Some(st)
    /\ UNCHANGED << inputs, pc, cmd, spawnAttempts, waits, result, hostExit,
                    childEnv, outLeft, wrote, pipe, rd, rbuf, logged,
                    errLogged, wr, wrLeft, childIn, captured, es >>

-----------------------------------------------------------------------------
(* The collaborators devprop, svccfg and svcprop.                          *)

DEVPROP_BIN == "/sbin/devprop"
SVCCFG_BIN == "/usr/sbin/svccfg"
SVCPROP_BIN == "/usr/bin/svcprop"

DevpropCall(key) == [fn |-> "devprop", key |-> key]
SvccfgCall(a, alt_root) == [fn |-> "svccfg", args |-> a, alt_root |-> alt_root]
SvcpropCall(fmri, prop_val) ==
    [fn |-> "svcprop", fmri |-> fmri, prop_val |-> prop_val]

\* single_line that accepts any output of at least one line
single_line_first(tool, name, val) ==
    IF Len(lines(val)) = 0 THEN ErrShape(tool, name, lines(val))
    ELSE Ok(trim(lines(val)[1]))

\* the tail of devprop and of svcprop: the captured text must be one line
single_line(tool, name, val) ==
    IF Len(lines(val)) # 1 THEN ErrShape(tool, name, lines(val))
    ELSE Ok(trim(lines(val)[1]))

\* devprop calls run_capture_stdout(vec![DEVPROP_BIN, key], None)
devprop_capture ==
    /\ Alive
    /\ pc = "call"
    /\ call.fn = "devprop"
    /\ mode' = "run_capture_stdout"
    /\ args' = << DEVPROP_BIN, call.key >>
    /\ env' = None
    /\ pc' = "start"
    /\ UNCHANGED << call, ambient, stdinText, prog, cmd, spawnAttempts, waits,
                    result, hostExit, cpc, childEnv, outLeft, wrote, pipe,
                    rd, rbuf, logged, errLogged, wr, wrLeft, childIn,
                    captured, status, es >>

\* run_capture_stdout has returned to devprop: `?`, then the line test
devprop_return ==
    /\ Alive
    /\ pc = "returned"
    /\ call.fn = "devprop"
    /\ result' = IF result.kind = "Ok"
                 THEN single_line("devprop", call.key, result.val)
                 ELSE result
    /\ pc' = "done"
    /\ UNCHANGED << inputs, cmd, spawnAttempts, waits, hostExit, cpc,
                    childEnv, outLeft, wrote, pipe, rd, rbuf, logged,
                    errLogged, wr, wrLeft, childIn, captured, status, es >>

\* pub fn devprop
devprop == devprop_capture \/ devprop_return

\* svccfg_env with the repository path under /var
svccfg_env_var(alt_root) ==
    IF alt_root.tag = "Some"
    THEN Some(<< << "SVCCFG_CHECKHASH", "1" >>,
                 << "PKG_INSTALL_ROOT", alt_root.v >>,
                 << "SVCCFG_DTD",
                    alt_root.v \o "/usr/share/lib/xml/dtd/service_bundle.dtd.1" >>,
                 << "SVCCFG_REPOSITORY",
                    alt_root.v \o "/var/svc/repository.db" >>,
                 << "SVCCFG_CONFIGD_PATH",
                    alt_root.v \o "/lib/svc/bin/svc.configd" >> >>)
    ELSE None

\* the overrides svccfg derives from alt_root
svccfg_env(alt_root) ==
    IF alt_root.tag = "Some"
    THEN Some(<< << "SVCCFG_CHECKHASH", "1" >>,
                 << "PKG_INSTALL_ROOT", alt_root.v >>,
                 << "SVCCFG_DTD",
                    alt_root.v \o "/usr/share/lib/xml/dtd/service_bundle.dtd.1" >>,
                 << "SVCCFG_REPOSITORY",
                    alt_root.v \o "/etc/svc/repository.db" >>,
                 << "SVCCFG_CONFIGD_PATH",
                    alt_root.v \o "/lib/svc/bin/svc.configd" >> >>)
    ELSE None

\* the payload svccfg builds: stdin += format!("{}\n", arg) for each arg
RECURSIVE svccfg_stdin(_)
svccfg_stdin(a) ==
    IF a = << >> THEN << >>
    ELSE (Head(a) \o << 10 >>) \o svccfg_stdin(Tail(a))

\* pub fn svccfg: it returns what run_with_stdin(&svccfg, env, stdin) returns
svccfg ==
    /\ Alive
    /\ pc = "call"
    /\ call.fn = "svccfg"
    /\ mode' = "run_with_stdin"
    /\ args' = << SVCCFG_BIN >>
    /\ env' = svccfg_env(call.alt_root)
    /\ stdinText' = svccfg_stdin(call.args)
    /\ pc' = "start"
    /\ UNCHANGED << call, ambient, prog, cmd, spawnAttempts, waits, result,
                    hostExit, cpc, childEnv, outLeft, wrote, pipe, rd, rbuf,
                    logged, errLogged, wr, wrLeft, childIn, captured,
                    status, es >>

\* svcprop calls run_capture_stdout(vec![SVCPROP_BIN, "-p", prop_val, fmri],
\* None)
svcprop_capture ==
    /\ Alive
    /\ pc = "call"
    /\ call.fn = "svcprop"
    /\ mode' = "run_capture_stdout"
    /\ args' = << SVCPROP_BIN, "-p", call.prop_val, call.fmri >>
    /\ env' = None
    /\ pc' = "start"
    /\ UNCHANGED << call, ambient, stdinText, prog, cmd, spawnAttempts, waits,
                    result, hostExit, cpc, childEnv, outLeft, wrote, pipe,
                    rd, rbuf, logged, errLogged, wr, wrLeft, childIn,
                    captured, status, es >>

\* run_capture_stdout has returned to svcprop: `?`, then the line test
svcprop_return ==
    /\ Alive
    /\ pc = "returned"
    /\ call.fn = "svcprop"
    /\ result' = IF result.kind = "Ok"
                 THEN single_line("svcprop", call.fmri, result.val)
                 ELSE result
    /\ pc' = "done"
    /\ UNCHANGED << inputs, cmd, spawnAttempts, waits, hostExit, cpc,
                    childEnv, outLeft, wrote, pipe, rd, rbuf, logged,
                    errLogged, wr, wrLeft, childIn, captured, status, es >>

\* pub fn svcprop
svcprop == svcprop_capture \/ svcprop_return

-----------------------------------------------------------------------------
(* The entry points and the specifications.                                *)

Reader == \E r \in Streams :
    ReaderRead(r) \/ ReaderEof(r) \/ ReaderReadErr(r) \/ ReaderExit(r)

Writer == WriterWrite \/ WriterFail \/ WriterDone

Child == (\E s \in Streams : ChildWrite(s)) \/ ChildRead \/ ChildClose
            \/ (\E st \in ExitStatuses : ChildExit(st))

\* pub fn run
run ==
    \/ mode = "run" /\ Build
    \/ mode = "run" /\ SpawnOk
    \/ mode = "run" /\ SpawnFail
    \/ mode = "run" /\ \E r \in Streams : SpawnReader(r)
    \/ mode = "run" /\ \E r \in Streams : JoinReader(r)
    \/ mode = "run" /\ CallWait
    \/ mode = "run" /\ WaitOk
    \/ mode = "run" /\ WaitErr

\* pub fn run_with_stdin
run_with_stdin ==
    \/ mode = "run_with_stdin" /\ Build
    \/ mode = "run_with_stdin" /\ SpawnOk
    \/ mode = "run_with_stdin" /\ SpawnFail
    \/ mode = "run_with_stdin" /\ SpawnWriter
    \/ mode = "run_with_stdin" /\ \E r \in Streams : SpawnReader(r)
    \/ mode = "run_with_stdin" /\ \E r \in Streams : JoinReader(r)
    \/ mode = "run_with_stdin" /\ CallWait
    \/ mode = "run_with_stdin" /\ WaitOk
    \/ mode = "run_with_stdin" /\ WaitErr

\* pub fn run_capture_stdout
run_capture_stdout ==
    \/ mode = "run_capture_stdout" /\ Build
    \/ mode = "run_capture_stdout" /\ SpawnOk
    \/ mode = "run_capture_stdout" /\ SpawnFail
    \/ mode = "run_capture_stdout" /\ \E s \in Streams : CaptureRead(s)
    \/ mode = "run_capture_stdout" /\ CaptureEof
    \/ mode = "run_capture_stdout" /\ CallWait
    \/ mode = "run_capture_stdout" /\ WaitOk
    \/ mode = "run_capture_stdout" /\ WaitErr

\* what the child writes to stdout in the concurrency specification: a
\* prefix of "h\nh\n...", or a line that is not UTF-8
OutScripts == {PatSeq(n) : n \in {0, 1, MaxWrite}} \cup {<< 255, 10 >>}

\* the inputs of the concurrency specification
ProcInputs ==
    {i \in {Input(m, a, None, << >>, PatSeq(t), Program(o, PatSeq(e), c)) :
               m \in Modes, a \in ArgSamples, t \in {0, MaxPayload},
               o \in OutScripts, e \in {0, 1, MaxWrite},
               c \in {"ignore", "drain"}} :
        /\ i.mode # "run_with_stdin" =>
              i.stdinText = << >> /\ i.prog.cin = "ignore"
        /\ Len(i.args) < 2 =>
              i.stdinText = << >> /\ i.prog = Program(<< >>, << >>, "ignore")}

Init == InitWith(ProcInputs)

Next == run \/ run_with_stdin \/ run_capture_stdout \/ Reader \/ Writer \/ Child

Spec == Init /\ [][Next]_vars

\* Scheduling: every thread of the host and the child process keep running
\* while they can take a step.  An I/O error of a read (ReaderReadErr) is a
\* fault of the environment and is never forced to happen.
Fairness ==
    /\ WF_vars(run \/ run_with_stdin \/ run_capture_stdout)
    /\ \A r \in Streams :
          WF_vars(ReaderRead(r) \/ ReaderEof(r) \/ ReaderExit(r))
    /\ WF_vars(Writer)
    /\ WF_vars(Child)

FairSpec == Spec /\ Fairness

\* Capture mode alone, the child writing arbitrary bytes: 'h', '\n' and the
\* two bytes of U+00E9 on stdout, 'e' and the invalid byte 0xFF on stderr
CaptureInputs ==
    {Input("run_capture_stdout", << "/bin/p", "-a" >>, None, << >>, << >>,
           Program(o, e, "ignore")) :
        o \in SeqsUpTo({104, 10, 195, 169}, MaxWrite),
        e \in SeqsUpTo({101, 255}, MaxWrite)}

InitCapture == InitWith(CaptureInputs)

NextCapture ==
    \/ run_capture_stdout
    \/ \E s \in Streams : ChildWrite(s)
    \/ ChildClose
    \/ \E st \in ExitStatuses : ChildExit(st)

SpecCapture == InitCapture /\ [][NextCapture]_vars

\* Command construction and spawn alone, over ambient environments and
\* override lists
AmbientKeys == LocaleVars \cup {"PATH", "PKG_INSTALL_ROOT"}
OverrideKeys == {"LANG", "LC_ALL", "PATH"}

AmbientSamples ==
    {[k \in K |-> "inherited"] :
        K \in {X \in SUBSET AmbientKeys : Cardinality(X) <= MaxAmbient}}

OverrideSamples ==
    {None} \cup {Some(e) : e \in SeqsUpTo(OverrideKeys \X {"1", "2"}, MaxEnv)}

EnvInputs ==
    {Input(m, << "/bin/p", "-a" >>, e, amb, << >>,
           Program(<< >>, << >>, "ignore")) :
        m \in Modes, e \in OverrideSamples, amb \in AmbientSamples}

InitEnv == InitWith(EnvInputs)

NextEnv == Build \/ SpawnOk \/ SpawnFail

SpecEnv == InitEnv /\ [][NextEnv]_vars

\* The streaming modes alone, the child writing whole lines to stdout: an
\* empty line, a blank line, "h", " i " with spaces around it, and "i"
\* without its newline
LineSamples ==
    {<< 10 >>, << 32, 10 >>, << 104, 10 >>, << 32, 105, 32, 10 >>, << 105 >>}

RECURSIVE Concat(_)
Concat(ls) == IF ls = << >> THEN << >> ELSE Head(ls) \o Concat(Tail(ls))

LineScripts == {Concat(ls) : ls \in SeqsUpTo(LineSamples, MaxLines)}

LogInputs ==
    {Input(m, << "/bin/p", "-a" >>, None, << >>, << >>,
           Program(o, e, "ignore")) :
        m \in Streaming, o \in LineScripts, e \in {<< >>, << 101, 10 >>}}

InitLog == InitWith(LogInputs)

NextLog ==
    \/ run
    \/ run_with_stdin
    \/ Reader
    \/ WriterDone
    \/ \E s \in Streams : ChildWrite(s)
    \/ ChildClose
    \/ \E st \in ExitStatuses : ChildExit(st)

SpecLog == InitLog /\ [][NextLog]_vars

\* A collaborator is called: nothing has been handed to the core yet
InitCall(C, P) ==
    /\ \E c \in C, p \in P :
          /\ call = c
          /\ prog = p
    /\ mode = "none"
    /\ args = << >>
    /\ env = None
    /\ ambient = << >>
    /\ stdinText = << >>
    /\ pc = "call"
    /\ Idle

\* The property readers, the tool printing any text over 'a', ' ', "\r" and
\* "\n"
PropCalls == {DevpropCall("boot-args"), SvcpropCall("svc:/x", "a/b")}

PropPrograms ==
    {Program(o, e, "ignore") :
        o \in SeqsUpTo({97, 32, 13, 10}, MaxText), e \in {<< >>, << 101 >>}}

InitProp == InitCall(PropCalls, PropPrograms)

NextProp ==
    \/ devprop
    \/ svcprop
    \/ run_capture_stdout
    \/ \E s \in Streams : ChildWrite(s)
    \/ ChildClose
    \/ \E st \in ExitStatuses : ChildExit(st)

SpecProp == InitProp /\ [][NextProp]_vars

\* svccfg with directives "a", "b" and the empty directive, with and
\* without an alternate root
SvccfgCalls ==
    {SvccfgCall(a, r) :
        a \in SeqsUpTo({<< >>, << 97 >>, << 98 >>}, MaxDirectives),
        r \in {None, Some("/a"), Some("")}}

SvccfgPrograms ==
    {Program(o, << >>, c) :
        o \in {<< >>, << 104, 10 >>}, c \in {"ignore", "drain"}}

InitSvccfg == InitCall(SvccfgCalls, SvccfgPrograms)

NextSvccfg == svccfg \/ run_with_stdin \/ Reader \/ Writer \/ Child

SpecSvccfg == InitSvccfg /\ [][NextSvccfg]_vars

-----------------------------------------------------------------------------
(* Properties.                                                             *)

Returned == pc = "returned"
\* wait-for-exit returned a status to the parent
Waited == es # None

(* C1: in run and run_with_stdin, whenever wait-for-exit has been called  *)
(* on the child, the stdout reader and the stderr reader have both read    *)
(* their stream to end-of-stream (the pipe is empty and its write end      *)
(* closed) and have terminated.                                            *)
C1_WaitAfterReaders ==
    (mode \in Streaming /\ waits > 0) =>
        \A r \in Streams : rd[r] = "done" /\ pipe[r] = << >> /\ ChildGone

\* the parent is blocked in wait-for-exit on a child that has closed its
\* streams after writing more than a pipe holds to each, and has not exited
C1_Witness ==
    /\ mode = "run_with_stdin"
    /\ pc = "waiting"
    /\ cpc = "closed"
    /\ \A r \in Streams : Len(wrote[r]) > PipeCap /\ rd[r] = "done"

(* C2: under fair scheduling, once run has spawned a child that writes any *)
(* amount to stdout and stderr and then exits, run returns, unless a read  *)
(* fault ends the host process: the child is never left blocked on a full  *)
(* pipe with the parent and the readers blocked.                           *)
C2_RunReturns ==
    (mode = "run" /\ cpc = "running") ~> (Returned \/ hostExit # None)

\* run has returned although the child wrote more than a pipe holds to
\* each stream
C2_Witness ==
    /\ mode = "run"
    /\ Returned
    /\ Waited
    /\ \A r \in Streams : Len(wrote[r]) > PipeCap

\* the last value an override list gives key k
RECURSIVE LastValue(_, _)
LastValue(e, k) ==
    IF e[Len(e)][1] = k THEN e[Len(e)][2]
    ELSE LastValue(SubSeq(e, 1, Len(e) - 1), k)

Overrides == IF env.tag = "Some" THEN env.v ELSE << >>
OverrideNames == {Overrides[i][1] : i \in DOMAIN Overrides}

(* C3: in all three modes the environment of a spawned child is the        *)
(* ambient environment without the eight locale variables, with the        *)
(* overrides on top: every override key is present with the (last) value   *)
(* the overrides give it, every other variable has its ambient value, and  *)
(* a locale variable is present only if an override names it.              *)
C3_ChildEnvironment ==
    childEnv.tag = "Some" =>
        /\ DOMAIN childEnv.v =
               (DOMAIN ambient \ LocaleVars) \cup OverrideNames
        /\ \A k \in OverrideNames : childEnv.v[k] = LastValue(Overrides, k)
        /\ \A k \in DOMAIN childEnv.v \ OverrideNames :
               childEnv.v[k] = ambient[k]
        /\ \A k \in LocaleVars :
               k \in DOMAIN childEnv.v <=> k \in OverrideNames

\* a child spawned with LC_ALL stripped, LANG reintroduced by an override
\* and PATH overridden
C3_Witness ==
    /\ childEnv.tag = "Some"
    /\ {"LC_ALL", "PATH"} \subseteq DOMAIN ambient
    /\ OverrideNames = {"LANG", "PATH"}
    /\ "LC_ALL" \notin DOMAIN childEnv.v
    /\ childEnv.v["LANG"] = "1"
    /\ childEnv.v["PATH"] = "2"

(* C4: in run and run_with_stdin, once wait-for-exit has returned the      *)
(* child's status, the result is Ok exactly when the status is success,    *)
(* and for any other status (a non-zero code, death by a signal) it is an  *)
(* error whose text shows the caller's whole argument vector and the raw   *)
(* status.                                                                 *)
C4_StatusToResult ==
    (mode \in Streaming /\ Returned /\ Waited) =>
        /\ es = status
        /\ result.kind = "Ok" <=> success(es.v)
        /\ ~success(es.v) =>
              /\ result.kind = "Err"
              /\ result.why = "exec"
              /\ result.argv = args
              /\ result.status = Some(es.v)

\* run on a child that exits with code 3
C4_Witness ==
    /\ mode = "run"
    /\ Returned
    /\ es = Some(StatusOfCode(3))
    /\ result = ErrExec(<< "/bin/p", "-a" >>, Some(StatusOfCode(3)), None)

(* C5: run_capture_stdout on a child that exits successfully returns       *)
(* exactly the bytes the child wrote to stdout, as text, nothing trimmed,  *)
(* dropped, reordered or added, whatever the child wrote to stderr; when   *)
(* those bytes are not UTF-8 the result is the decode error.               *)
C5_CaptureExact ==
    (mode = "run_capture_stdout" /\ Returned /\ Waited /\ success(es.v)) =>
        result = IF ValidUtf8(wrote["O"]) THEN Ok(wrote["O"]) ELSE ErrUtf8

\* a child that printed "h\n" and wrote invalid bytes to stderr
C5_Witness ==
    /\ mode = "run_capture_stdout"
    /\ Returned
    /\ wrote["O"] = << 104, 10 >>
    /\ wrote["E"] = << 255, 101 >>
    /\ result = Ok(<< 104, 10 >>)

(* C6: in the streaming modes a read error on stdout or stderr is logged   *)
(* by the reader and never becomes a result: from the error on, the call   *)
(* has not returned and does not return, the host process ends with exit   *)
(* code 100, and nothing else ends the host process.                       *)
C6_ReadFaultIsFatal ==
    /\ [](errLogged # << >> =>
            /\ result = NoResult
            /\ ~Returned
            /\ \E r \in Streams : rd[r] = "faulted")
    /\ [](hostExit # None =>
            hostExit = Some(FatalExitCode) /\ errLogged # << >>)
    /\ (errLogged # << >>) ~> (hostExit = Some(FatalExitCode))

\* the host process has ended on a stderr read error while the stdout
\* reader and the stdin writer were running and the parent was joining
C6_Witness ==
    /\ mode = "run_with_stdin"
    /\ hostExit = Some(FatalExitCode)
    /\ errLogged = << "E" >>
    /\ rd["O"] = "running"
    /\ wr = "running"
    /\ pc = "join_out"
    /\ result = NoResult

(* C7 as stated: when run or run_with_stdin returns, every reader and      *)
(* writer thread of the invocation has terminated.                         *)
C7_AllWorkersEnded ==
    (mode \in Streaming /\ Returned) =>
        /\ \A r \in Streams : rd[r] \in {"none", "done"}
        /\ wr \in {"none", "done", "panicked"}

(* C7 amended: when run or run_with_stdin returns, on every return path,   *)
(* every reader thread of the invocation has terminated (none was started  *)
(* if the spawn failed); the stdin writer thread of run_with_stdin is      *)
(* detached and may still be running.                                      *)
C7_ReadersEnded ==
    (mode \in Streaming /\ Returned) =>
        /\ \A r \in Streams :
              rd[r] = IF result = ErrSpawn THEN "none" ELSE "done"
        /\ mode = "run" => wr = "none"

\* run_with_stdin has returned the error of a failed child with both
\* readers ended and the writer thread still running
C7_Witness ==
    /\ mode = "run_with_stdin"
    /\ Returned
    /\ result.kind = "Err"
    /\ result.why = "exec"
    /\ \A r \in Streams : rd[r] = "done"
    /\ wr = "running"

(* C8: the failure of the stdin writer ends the writer thread alone: the   *)
(* step leaves the host process, the readers, their pipes and log, and the *)
(* parent as they are, and the result of a run_with_stdin whose writer     *)
(* failed is still the one the child's exit status gives.                  *)
C8_WriterFailureContained ==
    /\ [][(wr = "running" /\ wr' = "panicked") =>
            UNCHANGED << hostExit, rd, rbuf, logged, errLogged, pipe, pc,
                         result, waits, es, cpc >>]_vars
    /\ [](wr = "panicked" => mode = "run_with_stdin")
    /\ []((wr = "panicked" /\ Returned /\ Waited) =>
            result = IF success(status.v) THEN Ok(<< >>)
                     ELSE ErrExec(args, status, None))

\* the child exited with success before the payload was written: the
\* writer failed and run_with_stdin returned Ok
C8_Witness ==
    /\ mode = "run_with_stdin"
    /\ wr = "panicked"
    /\ wrLeft # << >>
    /\ Returned
    /\ result = Ok(<< >>)
    /\ \A r \in Streams : rd[r] = "done"

(* C9: in all three modes the spawn is attempted at most once, and exactly *)
(* once by an invocation that returns; when it fails the error is returned *)
(* at once: no reader or writer thread exists, no wait was made and no     *)
(* child exists.                                                           *)
C9_SpawnFailure ==
    /\ spawnAttempts <= 1
    /\ Returned => spawnAttempts = 1
    /\ (spawnAttempts = 1 /\ cpc = "none") =>
          /\ Returned
          /\ result = ErrSpawn
    /\ result = ErrSpawn =>
          /\ cpc = "none"
          /\ spawnAttempts = 1
          /\ waits = 0
          /\ es = None
          /\ wr = "none"
          /\ \A r \in Streams : rd[r] = "none"

\* run_with_stdin with a payload returned the spawn error
C9_Witness ==
    /\ mode = "run_with_stdin"
    /\ stdinText # << >>
    /\ Returned
    /\ result = ErrSpawn

(* C10 as stated: in capture mode a child that exits with a failure status *)
(* gives an error that carries the argument vector, the exit status and    *)
(* the decoded stderr text.                                                *)
C10_ErrorCarriesStatus ==
    (mode = "run_capture_stdout" /\ Returned /\ Waited /\ ~success(es.v)) =>
        /\ result.kind = "Err"
        /\ result.why = "exec"
        /\ result.argv = args
        /\ result.status = Some(es.v)
        /\ result.text = Some(wrote["E"])

(* C10 amended: in capture mode a child that exits with a failure status   *)
(* gives an error that carries the argument vector and the decoded stderr  *)
(* text and not the exit status; when its stderr is not UTF-8 the error is *)
(* the decode error alone.                                                 *)
C10_CaptureFailure ==
    (mode = "run_capture_stdout" /\ Returned /\ Waited /\ ~success(es.v)) =>
        result = IF ValidUtf8(wrote["E"])
                 THEN ErrExec(args, None, Some(wrote["E"]))
                 ELSE ErrUtf8

\* a child that wrote to both streams and exited with code 3
C10_Witness ==
    /\ mode = "run_capture_stdout"
    /\ Returned
    /\ es = Some(StatusOfCode(3))
    /\ wrote["O"] # << >>
    /\ result = ErrExec(<< "/bin/p", "-a" >>, None, Some(<< 101, 101 >>))

\* the lines of a byte stream: each ends with its newline, but for an
\* unterminated last one
RECURSIVE SplitLines(_)
SplitLines(s) ==
    IF s = << >> THEN << >>
    ELSE IF FirstNewline(s) = 0 THEN << s >>
    ELSE << SubSeq(s, 1, FirstNewline(s)) >>
            \o SplitLines(SubSeq(s, FirstNewline(s) + 1, Len(s)))

\* the records a sequence of lines must give: the trimmed text of each
\* line that is not empty after trimming, in order
RECURSIVE Records(_)
Records(ls) ==
    IF ls = << >> THEN << >>
    ELSE (IF trim(Head(ls)) = << >> THEN << >> ELSE << trim(Head(ls)) >>)
            \o Records(Tail(ls))

IsPrefix(a, b) == Len(a) <= Len(b) /\ a = SubSeq(b, 1, Len(a))

(* C11: in run and run_with_stdin, once the reader of a stream has ended,  *)
(* the records logged under its tag ("O" for stdout, "E" for stderr) are,  *)
(* in order, the trimmed text of each line the child wrote to that stream  *)
(* that is not empty after trimming, one record a line; before that the    *)
(* records are a prefix of these.                                          *)
C11_LinesLogged ==
    \A r \in Streams :
        /\ IsPrefix(logged[r], Records(SplitLines(wrote[r])))
        /\ rd[r] = "done" =>
              logged[r] = Records(SplitLines(wrote[r]))

\* the child wrote a blank line and the line " i " to stdout and "e" to
\* stderr: one record "i" under "O", one record "e" under "E"
C11_Witness ==
    /\ mode = "run"
    /\ Returned
    /\ wrote["O"] = << 32, 10, 32, 105, 32, 10 >>
    /\ logged["O"] = << << 105 >> >>
    /\ wrote["E"] = << 101, 10 >>
    /\ logged["E"] = << << 101 >> >>

\* the number of lines of a text: its newlines, and one more when text
\* follows the last newline
NumLines(t) ==
    Cardinality({i \in 1 .. Len(t) : t[i] = 10})
        + (IF t # << >> /\ t[Len(t)] # 10 THEN 1 ELSE 0)

\* a line without its line ending "\n" or "\r\n"
StripEol(l) ==
    IF l # << >> /\ l[Len(l)] = 10
    THEN IF Len(l) > 1 /\ l[Len(l) - 1] = 13
         THEN SubSeq(l, 1, Len(l) - 2)
         ELSE SubSeq(l, 1, Len(l) - 1)
    ELSE l

\* a property reader has returned after a capture that succeeded
PropCaptured ==
    /\ call.fn \in {"devprop", "svcprop"}
    /\ pc = "done"
    /\ es # None
    /\ success(es.v)
    /\ ValidUtf8(captured["O"])

\* the key devprop was called with, the FMRI svcprop was called with
PropName == IF call.fn = "devprop" THEN call.key ELSE call.fmri

(* C12 as stated: devprop and svcprop return the single trimmed line when  *)
(* the captured stdout has exactly one line that is not empty after        *)
(* trimming, and an error showing the observed lines when it has none or   *)
(* at least two such lines.                                                *)
C12_OneNonEmptyLine ==
    PropCaptured =>
        LET recs == Records(SplitLines(captured["O"])) IN
        IF Len(recs) = 1
        THEN result = Ok(recs[1])
        ELSE /\ result.kind = "Err"
             /\ result.why = "unexpected output"

(* C12, amended: devprop and svcprop count every line of the captured      *)
(* stdout, empty ones included.  With exactly one line they return it      *)
(* trimmed (an empty text for an empty or blank line); with no line or at  *)
(* least two lines they return an error that names the tool and the key    *)
(* (the FMRI for svcprop) and shows all the lines, each without its line   *)
(* ending.  An error of the capture itself is returned unchanged.          *)
C12_OneLine ==
    /\ PropCaptured =>
          LET t == captured["O"] IN
          IF NumLines(t) = 1
          THEN result = Ok(trim(t))
          ELSE /\ result.kind = "Err"
               /\ result.why = "unexpected output"
               /\ result.tool = call.fn
               /\ result.name = PropName
               /\ Len(result.lines) = NumLines(t)
               /\ \A i \in 1 .. NumLines(t) :
                     result.lines[i] = StripEol(SplitLines(t)[i])
    /\ (pc = "done" /\ ~PropCaptured) =>
          /\ result.kind = "Err"
          /\ result.why \in {"spawn", "wait", "exec"}

\* svcprop captured "a\n\n": two lines, one of them empty, and an error
C12_Witness ==
    /\ PropCaptured
    /\ call.fn = "svcprop"
    /\ captured["O"] = << 97, 10, 10 >>
    /\ result = ErrShape("svcprop", "svc:/x", << << 97 >>, << >> >>)

\* the five overrides svccfg derives from the alternate root R
SvccfgOverrides(R) ==
    {<< "SVCCFG_CHECKHASH", "1" >>,
     << "PKG_INSTALL_ROOT", R >>,
     << "SVCCFG_DTD", R \o "/usr/share/lib/xml/dtd/service_bundle.dtd.1" >>,
     << "SVCCFG_REPOSITORY", R \o "/etc/svc/repository.db" >>,
     << "SVCCFG_CONFIGD_PATH", R \o "/lib/svc/bin/svc.configd" >>}

(* C13: svccfg calls run_with_stdin with a payload whose lines are the     *)
(* caller's directives in their order, each followed by a newline; with an *)
(* alternate root R it passes exactly five overrides (the checkhash flag   *)
(* "1", the install root R, and the DTD, repository and configd paths, R   *)
(* followed by a fixed suffix), which the spawned child then has in its    *)
(* environment; without an alternate root it passes no overrides.          *)
C13_SvccfgFeeds ==
    (call.fn = "svccfg" /\ pc # "call") =>
        /\ mode = "run_with_stdin"
        /\ SplitLines(stdinText) =
              [i \in 1 .. Len(call.args) |-> call.args[i] \o << 10 >>]
        /\ call.args = << >> => stdinText = << >>
        /\ IF call.alt_root.tag = "Some"
           THEN /\ env.tag = "Some"
                /\ Len(env.v) = 5
                /\ {env.v[i] : i \in 1 .. 5} = SvccfgOverrides(call.alt_root.v)
                /\ childEnv # None =>
                      \A o \in SvccfgOverrides(call.alt_root.v) :
                          /\ o[1] \in DOMAIN childEnv.v
                          /\ childEnv.v[o[1]] = o[2]
           ELSE /\ env = None
                /\ childEnv # None => childEnv.v = ambient

\* svccfg was given "a" and "b" and the alternate root "/a", and has
\* returned
C13_Witness ==
    /\ call = SvccfgCall(<< << 97 >>, << 98 >> >>, Some("/a"))
    /\ pc = "returned"
    /\ stdinText = << 97, 10, 98, 10 >>
    /\ childEnv # None
    /\ childEnv.v["SVCCFG_REPOSITORY"] = "/a/etc/svc/repository.db"
    /\ childIn = stdinText

(* C14 as stated: no locale variable is ever present in the environment of *)
(* a spawned child, whatever the ambient environment and the overrides.    *)
C14_NoLocaleEver ==
    childEnv.tag = "Some" => LocaleVars \cap DOMAIN childEnv.v = {}

(* C14, amended: in all three modes no locale variable is inherited from   *)
(* the ambient environment; a locale variable is present in a spawned      *)
(* child's environment exactly when the caller's overrides name it, and    *)
(* then with the last value the overrides give it.                         *)
C14_LocaleOnlyByOverride ==
    childEnv.tag = "Some" =>
        \A k \in LocaleVars :
            IF k \in OverrideNames
            THEN /\ k \in DOMAIN childEnv.v
                 /\ childEnv.v[k] = LastValue(Overrides, k)
            ELSE k \notin DOMAIN childEnv.v

\* LANG and LC_ALL are set in the ambient environment and the overrides set
\* LC_ALL twice: the child has LC_ALL with the second value and no LANG
C14_Witness ==
    /\ childEnv.tag = "Some"
    /\ DOMAIN ambient = {"LANG", "LC_ALL"}
    /\ Overrides = << << "LC_ALL", "1" >>, << "LC_ALL", "2" >> >>
    /\ DOMAIN childEnv.v = {"LC_ALL"}
    /\ childEnv.v["LC_ALL"] = "2"

\* run_with_stdin runs a child that reads its stdin until end-of-input
Draining == mode = "run_with_stdin" /\ prog.cin = "drain"

(* C15: in run_with_stdin with a child that reads its stdin to             *)
(* end-of-input while writing any amount to stdout and stderr, all three   *)
(* pipes bounded: the writer never fails, once it has ended the whole      *)
(* payload has been written, and a child that has seen end-of-input has    *)
(* read exactly the payload; and under fair scheduling run_with_stdin      *)
(* returns once the child is spawned, unless a read fault ends the host    *)
(* process.                                                                *)
C15_StdinLiveness ==
    /\ [](Draining =>
            /\ wr # "panicked"
            /\ wr = "done" => childIn \o pipe["I"] = stdinText
            /\ cpc \in {"closed", "zombie", "reaped"} =>
                  wr = "done" /\ childIn = stdinText)
    /\ (Draining /\ cpc = "running") ~> (Returned \/ ~Alive)

\* run_with_stdin has returned; the payload and what the child wrote to
\* each stream were longer than a pipe holds, and the child read it all
C15_Witness ==
    /\ Draining
    /\ Returned
    /\ Waited
    /\ Len(stdinText) > PipeCap
    /\ childIn = stdinText
    /\ \A r \in Streams : Len(wrote[r]) > PipeCap

\* the invocation is over: it has returned, panicked, or the host process
\* has exited
Ended == pc \in {"returned", "panicked"} \/ ~Alive

\* the phase of an invocation, from the position of the calling thread
Phase ==
    IF Ended THEN "Ended"
    ELSE IF pc = "start" THEN "Start"
    ELSE IF pc = "built" THEN "Built"
    ELSE IF pc \in {"spawn_writer", "spawn_out", "collect"} THEN "Spawned"
    ELSE IF pc \in {"spawn_err", "join_out", "join_err"} THEN "Streaming"
    ELSE IF pc = "call_wait"
         THEN (IF mode \in Streaming THEN "Streaming" ELSE "Spawned")
    ELSE "Waited"

\* how an invocation ended
Outcome ==
    IF ~Alive THEN "FailedRead"
    ELSE IF pc = "panicked" THEN "Panicked"
    ELSE IF pc # "returned" THEN "None"
    ELSE IF result.kind = "Ok" THEN "Succeeded"
    ELSE IF result.why = "exec" THEN "FailedExit"
    ELSE IF result.why = "spawn" THEN "FailedSpawn"
    ELSE IF result.why = "wait" THEN "FailedWait"
    ELSE "FailedDecode"

(* C16 as stated: every invocation ends in one of the outcomes Succeeded,  *)
(* FailedExit, FailedSpawn and FailedRead, after the phases Built,         *)
(* Spawned and Waited, and FailedRead alone does not return to the caller. *)
C16_FourOutcomes ==
    Ended =>
        /\ Outcome \in {"Succeeded", "FailedExit", "FailedSpawn", "FailedRead"}
        /\ cmd # None /\ cpc # "none" /\ waits > 0
        /\ pc = "returned" <=> Outcome # "FailedRead"

\* the steps from one phase to a later one
PhaseSteps ==
    {<< "Start", "Built" >>, << "Built", "Spawned" >>,
     << "Spawned", "Streaming" >>, << "Streaming", "Waited" >>,
     << "Spawned", "Waited" >>, << "Waited", "Ended" >>,
     << "Start", "Ended" >>, << "Built", "Ended" >>,
     << "Streaming", "Ended" >>}

(* C16, amended: in every mode an invocation moves forward through the     *)
(* phases Built, Spawned, Streaming (streaming modes only) and Waited,     *)
(* never back, and may leave the sequence early: before Built when         *)
(* build_cmd panics on an empty argument vector, from Built when the spawn *)
(* fails, from Streaming when a read fault ends the host process.  It ends *)
(* in exactly one outcome, which then never changes: Succeeded, FailedExit *)
(* or FailedWait after Waited, FailedDecode after Waited in capture mode,  *)
(* FailedSpawn with no child spawned or waited on, FailedRead, or          *)
(* Panicked; FailedRead and Panicked are the outcomes that do not return   *)
(* to the caller.                                                          *)
C16_Phases ==
    /\ [](Ended =>
            /\ Outcome \in {"Succeeded", "FailedExit", "FailedSpawn",
                            "FailedWait", "FailedDecode", "FailedRead",
                            "Panicked"}
            /\ pc = "returned" <=> Outcome \notin {"FailedRead", "Panicked"}
            /\ Outcome \in {"Succeeded", "FailedExit", "FailedDecode"} =>
                  cmd # None /\ es # None /\ waits = 1
            /\ Outcome = "FailedWait" =>
                  cmd # None /\ cpc # "none" /\ waits = 1
            /\ Outcome = "FailedDecode" => mode = "run_capture_stdout"
            /\ Outcome = "FailedSpawn" =>
                  cmd # None /\ cpc = "none" /\ waits = 0
            /\ Outcome = "FailedRead" =>
                  mode \in Streaming /\ cpc # "none" /\ waits = 0
            /\ Outcome = "Panicked" =>
                  args = << >> /\ cmd = None /\ cpc = "none")
    /\ [][/\ Phase' # Phase =>
               /\ << Phase, Phase' >> \in PhaseSteps
               /\ Phase' = "Streaming" => mode \in Streaming
               /\ (Phase = "Spawned" /\ Phase' = "Waited") =>
                     mode = "run_capture_stdout"
          /\ Ended => Outcome' = Outcome]_vars

\* a capture whose child wrote bytes that are not UTF-8 and exited with
\* success: waited on, ended, returned with the decode error
C16_Witness ==
    /\ Phase = "Ended"
    /\ Outcome = "FailedDecode"
    /\ Waited
    /\ captured["O"] = << 255, 10 >>

\* the stream run_capture_stdout decodes once the child has been waited on
Decoded == IF success(es.v) THEN "O" ELSE "E"

(* C17: run_capture_stdout decodes one captured stream, stdout when the    *)
(* exit status is success and stderr otherwise: the result is the decode   *)
(* error exactly when that stream is not UTF-8, whatever the other stream  *)
(* holds; otherwise it is Ok with the stdout text on success, and on       *)
(* failure the non-zero-exit error with the stderr text, never an Ok and   *)
(* never the stdout text.                                                  *)
C17_OneStreamDecoded ==
    (mode = "run_capture_stdout" /\ Returned /\ Waited) =>
        /\ result = ErrUtf8 <=> ~ValidUtf8(captured[Decoded])
        /\ (success(es.v) /\ result # ErrUtf8) =>
              result.kind = "Ok" /\ result.val = captured["O"]
        /\ (~success(es.v) /\ result # ErrUtf8) =>
              /\ result.kind = "Err"
              /\ result.why = "exec"
              /\ result.text = Some(captured["E"])
        /\ (~success(es.v) /\ captured["O"] # captured["E"]) =>
              /\ result.kind = "Err"
              /\ result.why = "exec" => result.text # Some(captured["O"])

\* a child killed by a signal after writing half a character to stdout
\* and "e" to stderr: the stdout bytes do not fail the call
C17_Witness ==
    /\ mode = "run_capture_stdout"
    /\ Returned
    /\ es = Some(StatusOfSignal(9))
    /\ captured["O"] = << 195 >>
    /\ captured["E"] = << 101 >>
    /\ result = ErrExec(args, None, Some(<< 101 >>))

\* the worker has been started
ReaderStarted(r) == rd[r] # "none"
WriterStarted == wr # "none"

(* C18: in run and run_with_stdin with a child spawned, both readers have   *)
(* been started whenever the parent is at or past the first join, so the   *)
(* stderr reader runs while the parent is blocked joining the stdout       *)
(* reader; in run_with_stdin the writer has been started before either     *)
(* reader is; run starts no writer; and no worker is started a second      *)
(* time, so an invocation has two readers and, in run_with_stdin, one      *)
(* writer.                                                                 *)
C18_WorkersStarted ==
    /\ [](mode \in Streaming =>
            /\ (\/ pc \in {"join_out", "join_err", "call_wait", "waiting"}
                \/ Returned /\ cpc # "none") =>
                  \A r \in Streams : ReaderStarted(r)
            /\ (pc = "join_out" /\ Alive) => rd["E"] \in {"running", "done",
                                                           "faulted"}
            /\ (\E r \in Streams : ReaderStarted(r)) =>
                  (mode = "run_with_stdin" <=> WriterStarted)
            /\ mode = "run" => ~WriterStarted
            /\ (mode = "run_with_stdin" /\ Returned /\ cpc # "none") =>
                  WriterStarted)
    /\ [][/\ \A r \in Streams :
               /\ ReaderStarted(r) => rd'[r] # "none"
               /\ rd[r] \in {"done", "faulted"} => rd'[r] = rd[r]
               /\ (~ReaderStarted(r) /\ ReaderStarted(r)') =>
                     pc = (IF r = "O" THEN "spawn_out" ELSE "spawn_err")
          /\ WriterStarted => wr' # "none"
          /\ wr \in {"done", "panicked"} => wr' = wr
          /\ (~WriterStarted /\ WriterStarted') => pc = "spawn_writer"]_vars

\* the parent is blocked joining the stdout reader, which is still
\* running, while the stderr reader has already logged a line and the
\* writer is running
C18_Witness ==
    /\ mode = "run_with_stdin"
    /\ pc = "join_out"
    /\ rd["O"] = "running"
    /\ wr = "running"
    /\ logged["E"] # << >>

\* cmd.spawn() / cmd.output() has created a child
ChildSpawned == cpc # "none"

(* C19 as stated: in all three modes an invocation that returns after      *)
(* spawning a child has waited on it exactly once and has reaped it, on    *)
(* the Ok and on every Err return path.                                    *)
C19_ReapedBeforeReturn ==
    (Returned /\ ChildSpawned) => waits = 1 /\ cpc = "reaped"

(* C19, amended: in all three modes wait-for-exit is called at most once   *)
(* and only on a spawned child, and an invocation that returns after       *)
(* spawning a child has called it exactly once; the child has been reaped  *)
(* when the call returned its status (the Ok path, the non-zero-exit and   *)
(* the decode error paths) and has not been reaped when wait-for-exit      *)
(* itself failed and its error is returned.                                *)
C19_WaitedOnce ==
    /\ [](/\ waits <= 1
          /\ waits = 1 => ChildSpawned
          /\ cpc = "reaped" => waits = 1 /\ es = status
          /\ (Returned /\ ChildSpawned) =>
                /\ waits = 1
                /\ result # ErrWait => cpc = "reaped"
                /\ result = ErrWait => cpc = "zombie" /\ es = None)
    /\ [][cpc = "reaped" => cpc' = "reaped" /\ waits' = waits]_vars

\* run_with_stdin has returned the non-zero-exit error of a child it
\* waited on once and reaped
C19_Witness ==
    /\ mode = "run_with_stdin"
    /\ Returned
    /\ result.kind = "Err"
    /\ result.why = "exec"
    /\ waits = 1
    /\ cpc = "reaped"

(* C20: command construction never fails: for every argument vector, the   *)
(* empty one and the one holding only the program path included, and every *)
(* override set, build_cmd returns a command whose program is the first    *)
(* element and whose arguments are the remaining elements in order.        *)
C20_BuildNeverFails ==
    /\ pc # "panicked"
    /\ pc # "start" =>
          /\ cmd # None
          /\ cmd.v.program = Head(args)
          /\ cmd.v.args = Tail(args)

=============================================================================
